---- MODULE Spec2Model ----
(***************************************************************************)
(* Graph analysis tool: build_graph / is_eulerian / has_hamiltonian_path   *)
(* and analyze_graph (analysis.py), the validation in                      *)
(* analyze_and_visualize and the ordered fallback of                       *)
(* alternative_detection_methods (main.py).                                *)
(*                                                                         *)
(* A Python dict is modelled as a record [keys, adj]: keys is the sequence *)
(* of keys in insertion order (the order `for k in d` iterates in), adj    *)
(* the function from key to value.                                         *)
(***************************************************************************)
EXTENDS Integers, Sequences, FiniteSets, TLC

VARIABLES
    pc,                \* position of the program
    nodes,             \* argument `nodes` of analyze_and_visualize
    edges,             \* argument `edges` of analyze_and_visualize
    validated_nodes,   \* main.py:190
    validated_edges,   \* main.py:204
    k,                 \* index of the edge the loop of build_graph is at
    acc,               \* the defaultdict(set) of build_graph (analysis.py:8)
    graph,             \* the dict handed to is_eulerian / has_hamiltonian_path
    eulerian_status,   \* result of is_eulerian
    hamiltonian_status,\* result of has_hamiltonian_path
    start,             \* index in graph.keys of the start node being tried
    tried,             \* start nodes is_hamiltonian_path was called with so far
    path,              \* argument `path` of is_hamiltonian_path (shared list)
    visited,           \* argument `visited` of is_hamiltonian_path (shared set)
    stack,             \* one frame per active call of is_hamiltonian_path
    retval,            \* value the call that just returned gave back
    m,                 \* index of the detection method being run
    calls,             \* log of the detection methods invoked, with outputs
    det,               \* value returned by alternative_detection_methods
    adj,               \* the dict `adj` of analyze_graph (analysis.py:62)
    edge_count,        \* the counter `edge_count` of analyze_graph
    degrees,           \* the list `degrees` of analyze_graph (analysis.py:76)
    resolved           \* the pairs (n1, n2) analyze_graph resolved the edges to

vars == <<pc, nodes, edges, validated_nodes, validated_edges, k, acc, graph,
          eulerian_status, hamiltonian_status, start, tried, path, visited,
          stack, retval, m, calls, det, adj, edge_count, degrees, resolved>>

\* the variables of analyze_graph
agvars == <<adj, edge_count, degrees, resolved>>

----------------------------------------------------------------------------
(* Bounds *)

\* number of distinct node labels an input may use
NumLabels == 3
\* longest `nodes` list handed to analyze_and_visualize or analyze_graph
MaxNodes == 3
\* longest `edges` list handed to analyze_and_visualize or analyze_graph
MaxEdges == 2
\* most nodes of a graph model handed directly to the analyzer functions
MaxGraphNodes == 4
\* longest node list and longest edge list a detection method returns
MaxDetected == 1

LabelName == <<"A", "B", "C", "D", "E", "F", "G", "H">>

LabelsUpTo(n) == {LabelName[i] : i \in 1..n}

Labels == LabelsUpTo(NumLabels)

----------------------------------------------------------------------------
(* Helpers for Python lists, sets and dicts *)

Range(s) == {s[i] : i \in 1..Len(s)}

\* all orders a Python set S may be listed in by list(S)
PermSeqs(S) ==
    {p \in [1..Cardinality(S) -> S] : \A i, j \in 1..Cardinality(S) : i # j => p[i] # p[j]}

\* the elements of S in the order of LabelName
SortedSeq(S) == SelectSeq(LabelName, LAMBDA x : x \in S)

\* sequences over S of length at most n
SeqsUpTo(S, n) == UNION {[1..l -> S] : l \in 0..n}

\* A Python set is held as the sequence of its distinct elements; the order of
\* the sequence has no meaning and list(s) may give the elements in any order.
EmptySet == <<>>

set_add_keeps_duplicates(s, x) == Append(s, x)

\* s.add(x): adding an element the set already holds changes nothing
set_add(s, x) == IF x \in Range(s) THEN s ELSE Append(s, x)

\* the lists list(s) may return
ListOrders(s) == {[i \in 1..Len(s) |-> s[p[i]]] : p \in PermSeqs(1..Len(s))}

EmptyDict == [keys |-> <<>>, adj |-> [x \in {} |-> EmptySet]]

\* d[key].add(x) on a defaultdict(set): a missing key is first inserted, last
\* in the order of the keys, with an empty set
DictSetAdd(d, key, x) ==
    IF key \in DOMAIN d.adj
    THEN [d EXCEPT !.adj[key] = set_add(@, x)]
    ELSE [keys |-> Append(d.keys, key), adj |-> (key :> set_add(EmptySet, x)) @@ d.adj]

\* neighbours of n in a graph dict (empty for a node that is no key)
Neighbors(g, n) == IF n \in DOMAIN g.adj THEN Range(g.adj[n]) ELSE {}

NoneStatus == "not computed"
Circuit == "Eulerian Circuit"
EPath == "Eulerian Path"
Neither == "Neither Eulerian Circuit nor Eulerian Path"
HamExists == "Hamiltonian Path Exists"
HamNone == "No Hamiltonian Path Found"

----------------------------------------------------------------------------
(* analysis.py: is_eulerian *)

odd_degree_nodes(g) == SelectSeq(g.keys, LAMBDA n : Len(g.adj[n]) % 2 # 0)

is_eulerian_no_neither(g) ==
    IF Len(odd_degree_nodes(g)) = 0 THEN Circuit ELSE EPath

is_eulerian(g) ==
    IF Len(odd_degree_nodes(g)) = 0 THEN Circuit
    ELSE IF Len(odd_degree_nodes(g)) = 2 THEN EPath
    ELSE Neither

Eulerian ==
    /\ pc = "eulerian"
    /\ eulerian_status' = is_eulerian(graph)
    /\ pc' = "ham_start"
    /\ UNCHANGED <<nodes, edges, validated_nodes, validated_edges, k, acc, graph,
                   hamiltonian_status, start, tried, path, visited, stack, retval,
                   m, calls, det>>
    /\ UNCHANGED agvars

----------------------------------------------------------------------------
(* analysis.py: has_hamiltonian_path and is_hamiltonian_path *)

start_nodes_first_only(g) == IF g.keys = <<>> THEN <<>> ELSE <<Head(g.keys)>>

\* the nodes `for start_node in graph` iterates over
start_nodes(g) == g.keys

\* has_hamiltonian_path: the next start node is taken and the call
\* is_hamiltonian_path(graph, [start_node], {start_node}) is entered
HamTryStart ==
    /\ pc = "ham_start"
    /\ start <= Len(start_nodes(graph))
    /\ path' = <<start_nodes(graph)[start]>>
    /\ visited' = {start_nodes(graph)[start]}
    /\ tried' = Append(tried, start_nodes(graph)[start])
    /\ stack' = <<>>
    /\ pc' = "call"
    /\ UNCHANGED <<nodes, edges, validated_nodes, validated_edges, k, acc, graph,
                   eulerian_status, hamiltonian_status, start, retval, m, calls, det>>
    /\ UNCHANGED agvars

\* has_hamiltonian_path: the loop over the start nodes is exhausted
HamFail ==
    /\ pc = "ham_start"
    /\ start > Len(start_nodes(graph))
    /\ hamiltonian_status' = HamNone
    /\ pc' = "done"
    /\ UNCHANGED <<nodes, edges, validated_nodes, validated_edges, k, acc, graph,
                   eulerian_status, start, tried, path, visited, stack, retval,
                   m, calls, det>>
    /\ UNCHANGED agvars

\* the test `len(path) == len(graph)`
path_complete(p, g) == Len(p) = Len(g.keys)

\* entry of is_hamiltonian_path: either the path is complete and the call
\* returns True, or last_node = path[-1] is taken and its loop starts. The
\* frame also records what path and visited held when the call was entered;
\* nothing the function does reads that record.
HamCall ==
    /\ pc = "call"
    /\ IF path_complete(path, graph)
       THEN /\ retval' = TRUE
            /\ pc' = "ret"
            /\ stack' = stack
       ELSE /\ stack' = Append(stack, [last_node |-> path[Len(path)], i |-> 1,
                                       entry_path |-> path, entry_visited |-> visited])
            /\ pc' = "loop"
            /\ retval' = retval
    /\ UNCHANGED <<nodes, edges, validated_nodes, validated_edges, k, acc, graph,
                   eulerian_status, hamiltonian_status, start, tried, path, visited,
                   m, calls, det>>
    /\ UNCHANGED agvars

Top == stack[Len(stack)]

set_remove_nothing(s, x) == s

\* visited.remove(neighbor), analysis.py:44
set_remove(s, x) == s \ {x}

\* one iteration of `for neighbor in graph[last_node]`: an unvisited neighbor
\* is added to visited and path and the recursive call is entered; a visited
\* one is skipped
HamLoop ==
    /\ pc = "loop"
    /\ Top.i <= Len(graph.adj[Top.last_node])
    /\ LET neighbor == graph.adj[Top.last_node][Top.i] IN
         IF neighbor \notin visited
         THEN /\ visited' = visited \cup {neighbor}
              /\ path' = Append(path, neighbor)
              /\ pc' = "call"
              /\ stack' = stack
         ELSE /\ stack' = [stack EXCEPT ![Len(stack)].i = @ + 1]
              /\ UNCHANGED <<visited, path, pc>>
    /\ UNCHANGED <<nodes, edges, validated_nodes, validated_edges, k, acc, graph,
                   eulerian_status, hamiltonian_status, start, tried, retval,
                   m, calls, det>>
    /\ UNCHANGED agvars

\* the loop over the neighbors is exhausted: the call returns False
HamLoopEnd ==
    /\ pc = "loop"
    /\ Top.i > Len(graph.adj[Top.last_node])
    /\ stack' = SubSeq(stack, 1, Len(stack) - 1)
    /\ retval' = FALSE
    /\ pc' = "ret"
    /\ UNCHANGED <<nodes, edges, validated_nodes, validated_edges, k, acc, graph,
                   eulerian_status, hamiltonian_status, start, tried, path, visited,
                   m, calls, det>>
    /\ UNCHANGED agvars

\* a recursive call returned into the loop of its caller: True is passed on
\* (the caller returns True), False makes the caller pop the neighbor from
\* path, remove it from visited and go on with the next neighbor
HamReturnInner ==
    /\ pc = "ret"
    /\ stack # <<>>
    /\ IF retval
       THEN /\ stack' = SubSeq(stack, 1, Len(stack) - 1)
            /\ UNCHANGED <<path, visited, pc>>
       ELSE /\ path' = SubSeq(path, 1, Len(path) - 1)
            /\ visited' = set_remove(visited, graph.adj[Top.last_node][Top.i])
            /\ stack' = [stack EXCEPT ![Len(stack)].i = @ + 1]
            /\ pc' = "loop"
    /\ UNCHANGED <<nodes, edges, validated_nodes, validated_edges, k, acc, graph,
                   eulerian_status, hamiltonian_status, start, tried, retval,
                   m, calls, det>>
    /\ UNCHANGED agvars

\* the outermost call returned into has_hamiltonian_path with True
HamFound ==
    /\ pc = "ret"
    /\ stack = <<>>
    /\ retval
    /\ hamiltonian_status' = HamExists
    /\ pc' = "done"
    /\ UNCHANGED <<nodes, edges, validated_nodes, validated_edges, k, acc, graph,
                   eulerian_status, start, tried, path, visited, stack, retval,
                   m, calls, det>>
    /\ UNCHANGED agvars

\* the outermost call returned False: the next start node is tried
HamNextStart ==
    /\ pc = "ret"
    /\ stack = <<>>
    /\ ~retval
    /\ start' = start + 1
    /\ pc' = "ham_start"
    /\ UNCHANGED <<nodes, edges, validated_nodes, validated_edges, k, acc, graph,
                   eulerian_status, hamiltonian_status, tried, path, visited, stack,
                   retval, m, calls, det>>
    /\ UNCHANGED agvars

----------------------------------------------------------------------------
(* main.py: analyze_and_visualize, for label-valued nodes; analysis.py:     *)
(* build_graph                                                              *)

\* str(x); the labels are strings, and str of a string is that string
str_(x) == x

\* main.py:190-201, the branch of the nodes that are no coordinate tuples
validate_nodes(ns) == [i \in 1..Len(ns) |-> str_(ns[i])]

\* main.py:204-221, the branch of the labeled graphs. With an empty node list
\* validated_nodes[0] raises IndexError for every edge, the handler at line 220
\* catches it and the edge is skipped.
validate_edges(vns, es) ==
    IF vns = <<>> THEN <<>>
    ELSE [i \in 1..Len(es) |-> <<str_(es[i][1]), str_(es[i][2])>>]

Validate ==
    /\ pc = "validate"
    /\ validated_nodes' = validate_nodes(nodes)
    /\ validated_edges' = validate_edges(validate_nodes(nodes), edges)
    /\ k' = 1
    /\ acc' = EmptyDict
    /\ pc' = "build"
    /\ UNCHANGED <<nodes, edges, graph, eulerian_status, hamiltonian_status, start,
                   tried, path, visited, stack, retval, m, calls, det>>
    /\ UNCHANGED agvars

add_edge_keeps_self_loops(d, u, v) == DictSetAdd(DictSetAdd(d, u, v), v, u)

add_edge_one_way(d, u, v) == IF u # v THEN DictSetAdd(d, u, v) ELSE d

\* analysis.py:11-14, the body of the loop of build_graph
add_edge(d, u, v) == IF u # v THEN DictSetAdd(DictSetAdd(d, u, v), v, u) ELSE d

\* analysis.py:10-14, the loop of build_graph over a whole edge list
RECURSIVE build_loop(_, _)
build_loop(d, es) ==
    IF es = <<>> THEN d
    ELSE build_loop(add_edge(d, Head(es)[1], Head(es)[2]), Tail(es))

\* one iteration of `for edge in edges` of build_graph(validated_nodes,
\* validated_edges); the argument `nodes` is not read
BuildEdge ==
    /\ pc = "build"
    /\ k <= Len(validated_edges)
    /\ acc' = add_edge(acc, validated_edges[k][1], validated_edges[k][2])
    /\ k' = k + 1
    /\ UNCHANGED <<pc, nodes, edges, validated_nodes, validated_edges, graph,
                   eulerian_status, hamiltonian_status, start, tried, path, visited,
                   stack, retval, m, calls, det>>
    /\ UNCHANGED agvars

\* the dicts {node: list(neighbors) for node, neighbors in graph.items()} may be
RECURSIVE ListChoices(_, _)
ListChoices(d, ks) ==
    IF ks = <<>> THEN {[x \in {} |-> <<>>]}
    ELSE {(Head(ks) :> l) @@ f : l \in ListOrders(d.adj[Head(ks)]),
                                 f \in ListChoices(d, Tail(ks))}

\* analysis.py:16, the return of build_graph
BuildReturn ==
    /\ pc = "build"
    /\ k > Len(validated_edges)
    /\ \E f \in ListChoices(acc, acc.keys) : graph' = [keys |-> acc.keys, adj |-> f]
    /\ pc' = "eulerian"
    /\ UNCHANGED <<nodes, edges, validated_nodes, validated_edges, k, acc,
                   eulerian_status, hamiltonian_status, start, tried, path, visited,
                   stack, retval, m, calls, det>>
    /\ UNCHANGED agvars

----------------------------------------------------------------------------
\* the working variables before any function has run
InitCommon ==
    /\ validated_nodes = <<>>
    /\ validated_edges = <<>>
    /\ k = 1
    /\ acc = EmptyDict
    /\ eulerian_status = NoneStatus
    /\ hamiltonian_status = NoneStatus
    /\ start = 1
    /\ tried = <<>>
    /\ path = <<>>
    /\ visited = {}
    /\ stack = <<>>
    /\ retval = FALSE
    /\ m = 1
    /\ calls = <<>>
    /\ det = <<>>
    /\ adj = <<>>
    /\ edge_count = 0
    /\ degrees = <<>>
    /\ resolved = <<>>

----------------------------------------------------------------------------
(* main.py: analyze_graph_from_image and alternative_detection_methods *)

\* pixel coordinates a detection method may report
Points == {<<0, 0>>, <<4, 3>>}

\* what a detection method may return: a list of points and a list of pairs
\* of points
Detections == SeqsUpTo(Points, MaxDetected) \X SeqsUpTo(Points \X Points, MaxDetected)

\* main.py:83-87
methods == <<"detect_with_contours", "detect_with_hough", "detect_with_feature_matching">>

\* what method(image_path) may return; detect_with_feature_matching is a
\* placeholder that returns two empty lists (main.py:161)
MethodOutputs(method) ==
    IF method = "detect_with_feature_matching" THEN {<<<<>>, <<>>>>} ELSE Detections

accepted_either(ns, es) == ns # <<>> \/ es # <<>>

\* the test `nodes and edges` (main.py:91, and negated at main.py:66 and 69)
accepted(ns, es) == ns # <<>> /\ es # <<>>

\* main.py:58-61: preprocess_image gives an image, or None and the analysis
\* returns
Preprocess ==
    /\ pc = "preprocess"
    /\ \E processed_img \in {"image", "None"} :
          pc' = IF processed_img = "None" THEN "returned" ELSE "detect"
    /\ UNCHANGED <<nodes, edges, validated_nodes, validated_edges, k, acc, graph,
                   eulerian_status, hamiltonian_status, start, tried, path, visited,
                   stack, retval, m, calls, det>>
    /\ UNCHANGED agvars

\* main.py:63-67: detect_nodes_edges, and the choice between the analysis and
\* the alternative methods
PrimaryDetect ==
    /\ pc = "detect"
    /\ \E d \in Detections :
          /\ nodes' = d[1]
          /\ edges' = d[2]
          /\ pc' = IF accepted(d[1], d[2]) THEN "analyze" ELSE "alternative"
    /\ m' = 1
    /\ UNCHANGED <<validated_nodes, validated_edges, k, acc, graph,
                   eulerian_status, hamiltonian_status, start, tried, path, visited,
                   stack, retval, calls, det>>
    /\ UNCHANGED agvars

\* main.py:89-94: one iteration of `for method in methods`
AltMethod ==
    /\ pc = "alternative"
    /\ m <= Len(methods)
    /\ \E d \in MethodOutputs(methods[m]) :
          /\ calls' = Append(calls, [method |-> methods[m], nodes |-> d[1], edges |-> d[2]])
          /\ IF accepted(d[1], d[2])
             THEN /\ det' = d
                  /\ pc' = "alt_returned"
                  /\ m' = m
             ELSE /\ m' = m + 1
                  /\ UNCHANGED <<det, pc>>
    /\ UNCHANGED <<nodes, edges, validated_nodes, validated_edges, k, acc, graph,
                   eulerian_status, hamiltonian_status, start, tried, path, visited,
                   stack, retval>>
    /\ UNCHANGED agvars

\* main.py:96: every method was tried and none accepted
AltExhausted ==
    /\ pc = "alternative"
    /\ m > Len(methods)
    /\ det' = <<<<>>, <<>>>>
    /\ pc' = "alt_returned"
    /\ UNCHANGED <<nodes, edges, validated_nodes, validated_edges, k, acc, graph,
                   eulerian_status, hamiltonian_status, start, tried, path, visited,
                   stack, retval, m, calls>>
    /\ UNCHANGED agvars

\* main.py:68-75: the result of the alternative methods is taken over; without
\* nodes or without edges the alternatives are offered, else the analysis runs
AltTaken ==
    /\ pc = "alt_returned"
    /\ nodes' = det[1]
    /\ edges' = det[2]
    /\ pc' = IF accepted(det[1], det[2]) THEN "analyze" ELSE "offer_alternatives"
    /\ UNCHANGED <<validated_nodes, validated_edges, k, acc, graph,
                   eulerian_status, hamiltonian_status, start, tried, path, visited,
                   stack, retval, m, calls, det>>
    /\ UNCHANGED agvars

DetectInit ==
    /\ InitCommon
    /\ pc = "preprocess"
    /\ nodes = <<>>
    /\ edges = <<>>
    /\ graph = [keys |-> <<>>, adj |-> [x \in {} |-> <<>>]]

DetectNext ==
    \/ Preprocess
    \/ PrimaryDetect
    \/ AltMethod
    \/ AltExhausted
    \/ AltTaken

SpecDetect == DetectInit /\ [][DetectNext]_vars

----------------------------------------------------------------------------
(* The analyzer functions applied to an arbitrary graph model *)

\* unordered pairs of distinct elements of S
Pairs(S) == {e \in SUBSET S : Cardinality(e) = 2}

\* the graph model with node set S and edge set E, keys and neighbor lists
\* in label order
ModelOf(S, E) ==
    [keys |-> SortedSeq(S),
     adj  |-> [n \in S |-> SortedSeq({x \in S : {n, x} \in E})]]

\* symmetric adjacency mappings without self-membership on at most
\* MaxGraphNodes nodes
GraphModels ==
    UNION {{ModelOf(S, E) : E \in SUBSET Pairs(S)} : S \in SUBSET LabelsUpTo(MaxGraphNodes)}

AnalyzerInit ==
    /\ InitCommon
    /\ nodes = <<>>
    /\ edges = <<>>
    /\ pc = "eulerian"
    /\ graph \in GraphModels

AnalyzerNext ==
    \/ Eulerian
    \/ HamTryStart
    \/ HamFail
    \/ HamCall
    \/ HamLoop
    \/ HamLoopEnd
    \/ HamReturnInner
    \/ HamFound
    \/ HamNextStart

SpecAnalyzer == AnalyzerInit /\ [][AnalyzerNext]_vars

----------------------------------------------------------------------------
(* analyze_and_visualize(nodes, edges) on label-valued input *)

\* node lists: at most MaxNodes distinct labels, in label order (nothing the
\* model covers reads the order of `nodes`)
NodeLists == {SortedSeq(S) : S \in {T \in SUBSET Labels : Cardinality(T) <= MaxNodes}}

\* edge lists: at most MaxEdges pairs of labels
EdgeLists == SeqsUpTo(Labels \X Labels, MaxEdges)

Init ==
    /\ InitCommon
    /\ pc = "validate"
    /\ nodes \in NodeLists
    /\ edges \in EdgeLists
    /\ graph = [keys |-> <<>>, adj |-> [x \in {} |-> <<>>]]

Next ==
    \/ Validate
    \/ BuildEdge
    \/ BuildReturn
    \/ Eulerian
    \/ HamTryStart
    \/ HamFail
    \/ HamCall
    \/ HamLoop
    \/ HamLoopEnd
    \/ HamReturnInner
    \/ HamFound
    \/ HamNextStart

Spec == Init /\ [][Next]_vars

----------------------------------------------------------------------------
(* analysis.py: analyze_graph(nodes, edges) on pixel coordinates *)

\* pixel coordinates of detected nodes and of edge endpoints
AGPoints == {<<0, 0>>, <<2, 0>>, <<1, 1>>}

\* np.linalg.norm(np.array(p) - np.array(q)) is the square root of this sum;
\* on integer coordinates the order of the norms is the order of the sums
norm2(p, q) == (p[1] - q[1]) * (p[1] - q[1]) + (p[2] - q[2]) * (p[2] - q[2])

\* min(range(len(nodes)), key=...) from index i on, `best` being the least so
\* far: a later index replaces it only with a strictly smaller key. Indices
\* are Python's, from 0; nodes[i] is ns[i + 1].
RECURSIVE min_scan(_, _, _, _)
min_scan(ns, pt, i, best) ==
    IF i >= Len(ns) THEN best
    ELSE min_scan(ns, pt, i + 1,
                  IF norm2(ns[i + 1], pt) < norm2(ns[best + 1], pt) THEN i ELSE best)

RECURSIVE min_scan_last(_, _, _, _)
min_scan_last(ns, pt, i, best) ==
    IF i >= Len(ns) THEN best
    ELSE min_scan_last(ns, pt, i + 1,
                       IF norm2(ns[i + 1], pt) <= norm2(ns[best + 1], pt) THEN i ELSE best)

nearest_node_last(ns, pt) == min_scan_last(ns, pt, 1, 0)

\* analysis.py:67-68, the index of the node closest to an edge endpoint
nearest_node(ns, pt) == min_scan(ns, pt, 1, 0)

AGCircuit == "Eulerian Circuit exists"
AGPath == "Eulerian Path exists"
AGNeither == "No Eulerian Path/Circuit"
AGPossible == "Possible Hamiltonian Path (needs verification)"
AGNoHam == "No Hamiltonian Path detected"

\* analysis.py:57-63: too few nodes end the analysis, else adj and edge_count
\* are set up
AGStart ==
    /\ pc = "ag_start"
    /\ IF Len(nodes) < 2
       THEN /\ pc' = "ag_returned"
            /\ UNCHANGED <<adj, edge_count, k>>
       ELSE /\ adj' = [i \in 0..(Len(nodes) - 1) |-> <<>>]
            /\ edge_count' = 0
            /\ k' = 1
            /\ pc' = "ag_loop"
    /\ UNCHANGED <<nodes, edges, validated_nodes, validated_edges, acc, graph,
                   eulerian_status, hamiltonian_status, start, tried, path, visited,
                   stack, retval, m, calls, det, degrees, resolved>>

\* analysis.py:65-73: one iteration of `for (pt1, pt2) in edges`
AGEdge ==
    /\ pc = "ag_loop"
    /\ k <= Len(edges)
    /\ LET n1 == nearest_node(nodes, edges[k][1])
           n2 == nearest_node(nodes, edges[k][2])
       IN  /\ resolved' = Append(resolved, <<n1, n2>>)
           /\ IF n1 # n2
              THEN /\ adj' = [adj EXCEPT ![n1] = Append(@, n2), ![n2] = Append(@, n1)]
                   /\ edge_count' = edge_count + 1
              ELSE UNCHANGED <<adj, edge_count>>
    /\ k' = k + 1
    /\ UNCHANGED <<pc, nodes, edges, validated_nodes, validated_edges, acc, graph,
                   eulerian_status, hamiltonian_status, start, tried, path, visited,
                   stack, retval, m, calls, det, degrees>>

\* analysis.py:77, the number of odd entries of degrees
odd_degree(ds) == Len(SelectSeq(ds, LAMBDA d : d % 2 # 0))

\* analysis.py:76-96: the degrees, the Eulerian verdict and the Hamiltonian hint
AGAnalyze ==
    /\ pc = "ag_loop"
    /\ k > Len(edges)
    /\ degrees' = [i \in 1..Len(nodes) |-> Len(adj[i - 1])]
    /\ eulerian_status' =
          IF odd_degree(degrees') = 0 THEN AGCircuit
          ELSE IF odd_degree(degrees') = 2 THEN AGPath
          ELSE AGNeither
    /\ hamiltonian_status' =
          IF Len(nodes) > 2 /\ edge_count >= Len(nodes) THEN AGPossible ELSE AGNoHam
    /\ pc' = "ag_done"
    /\ UNCHANGED <<nodes, edges, validated_nodes, validated_edges, k, acc, graph,
                   start, tried, path, visited, stack, retval, m, calls, det,
                   adj, edge_count, resolved>>

AGInit ==
    /\ InitCommon
    /\ pc = "ag_start"
    /\ nodes \in SeqsUpTo(AGPoints, MaxNodes)
    /\ edges \in SeqsUpTo(AGPoints \X AGPoints, MaxEdges)
    /\ graph = [keys |-> <<>>, adj |-> [x \in {} |-> <<>>]]

AGNext ==
    \/ AGStart
    \/ AGEdge
    \/ AGAnalyze

SpecAnalyzeGraph == AGInit /\ [][AGNext]_vars

----------------------------------------------------------------------------
(* Claims about the analyzer functions, checked under SpecAnalyzer *)

\* the orderings of all the nodes of g in which each consecutive pair is adjacent
HamiltonianOrderings(g) ==
    {p \in PermSeqs(Range(g.keys)) :
        \A i \in 1..(Len(p) - 1) : p[i + 1] \in Neighbors(g, p[i])}

IsComplete(g) ==
    \A a, b \in Range(g.keys) : a # b => b \in Neighbors(g, a)

\* C1 as stated: has_hamiltonian_path reports a path if and only if some
\* ordering of all the nodes of the graph has each consecutive pair adjacent.
C1_ReportsIffOrderingExists ==
    pc = "done" =>
        (hamiltonian_status = HamExists <=> HamiltonianOrderings(graph) # {})

\* C1 as amended: on a graph with at least one node, has_hamiltonian_path
\* reports a path if and only if such an ordering exists (the path it ends with
\* is one), it reports failure only after is_hamiltonian_path was tried from
\* every node of the graph, and it reports a path for every complete graph on
\* at least 2 nodes; on the graph without nodes it reports that there is none.
C1_HamiltonianDecided ==
    pc = "done" =>
        /\ graph.keys # <<>> =>
              (hamiltonian_status = HamExists <=> HamiltonianOrderings(graph) # {})
        /\ hamiltonian_status = HamExists => path \in HamiltonianOrderings(graph)
        /\ hamiltonian_status = HamNone => tried = graph.keys
        /\ (IsComplete(graph) /\ Len(graph.keys) >= 2) => hamiltonian_status = HamExists
        /\ graph.keys = <<>> => hamiltonian_status = HamNone

\* a path is reported although the first start node tried had failed
C1_Witness ==
    /\ pc = "done"
    /\ hamiltonian_status = HamExists
    /\ Len(tried) >= 2

\* the number of nodes whose neighbor collection has odd size
OddCount(g) == Cardinality({n \in Range(g.keys) : Len(g.adj[n]) % 2 = 1})

\* C2: is_eulerian returns Circuit when no node has odd degree, Path when
\* exactly 2 have and Neither for any other count, the degree being the size of
\* the neighbor collection; whether the graph is connected plays no part.
C2_EulerianByOddCount ==
    eulerian_status # NoneStatus =>
        /\ OddCount(graph) = 0 => eulerian_status = Circuit
        /\ OddCount(graph) = 2 => eulerian_status = EPath
        /\ OddCount(graph) \notin {0, 2} => eulerian_status = Neither

\* a graph of two components, an isolated node and a cycle, reported as Circuit
C2_Witness ==
    /\ eulerian_status = Circuit
    /\ \E a, b \in Range(graph.keys) : Len(graph.adj[a]) = 0 /\ Len(graph.adj[b]) = 2

\* a sequence without a repeated element
NoRepeats(p) == \A i, j \in 1..Len(p) : i # j => p[i] # p[j]

\* C12: whenever is_hamiltonian_path is entered or returns, visited is the set
\* of the elements of path and path repeats no node; a call that returns False
\* leaves path and visited as they were when it was entered; a call returns
\* True only with len(path) equal to the number of nodes of the graph.
C12_BacktrackingRestores ==
    [][/\ pc' \in {"call", "ret"} =>
             /\ visited' = Range(path')
             /\ NoRepeats(path')
       /\ (pc = "loop" /\ pc' = "ret") =>
             /\ ~retval'
             /\ path' = Top.entry_path
             /\ visited' = Top.entry_visited
       /\ (pc' = "ret" /\ retval') => Len(path') = Len(graph'.keys)]_vars

\* the outermost call returned False after neighbors of its start node had
\* been pushed and popped again
C12_Witness ==
    /\ pc = "ret"
    /\ ~retval
    /\ stack = <<>>
    /\ Len(path) = 1
    /\ graph.adj[path[1]] # <<>>

----------------------------------------------------------------------------
(* Claims about build_graph and analyze_and_visualize, checked under Spec *)

\* build_graph has returned its dict
GraphReturned == pc \in {"eulerian", "ham_start", "call", "loop", "ret", "done"}

\* build_graph has just returned its dict (nothing later assigns to it)
JustReturned == pc = "eulerian"

\* the labels that occur as an endpoint of an edge of es
Endpoints(es) == UNION {{es[i][1], es[i][2]} : i \in 1..Len(es)}

\* C3: with at least 2 nodes of which one occurs in no edge, build_graph
\* followed by has_hamiltonian_path reports that no Hamiltonian path exists.
C3_IsolatedNodeNoPath ==
    (/\ pc = "done"
     /\ Len(validated_nodes) >= 2
     /\ Range(validated_nodes) \ Endpoints(validated_edges) # {})
        => hamiltonian_status = HamNone

\* C4: the keys of the dict build_graph returns are exactly the entries of
\* `nodes`, the nodes that occur in no surviving edge included.
C4_KeysAreNodes ==
    GraphReturned => Range(graph.keys) = Range(validated_nodes)

\* C5: in the dict build_graph returns, and in the one it builds, B is a
\* neighbor of A if and only if A is a neighbor of B.
C5_Symmetric ==
    /\ pc = "build" =>
          \A a, b \in Labels : b \in Neighbors(acc, a) <=> a \in Neighbors(acc, b)
    /\ JustReturned =>
          \A a, b \in Labels : b \in Neighbors(graph, a) <=> a \in Neighbors(graph, b)

\* an edge given in one orientation only is in the returned dict both ways
C5_Witness ==
    /\ JustReturned
    /\ \E a, b \in Labels :
          /\ <<a, b>> \in Range(validated_edges)
          /\ <<b, a>> \notin Range(validated_edges)
          /\ a # b
          /\ a \in Neighbors(graph, b)

NoSelfLoops(es) == SelectSeq(es, LAMBDA e : e[1] # e[2])

\* the dict d has the keys and the neighbor counts of the dict e
SameDegrees(d, e) ==
    /\ DOMAIN d.adj = DOMAIN e.adj
    /\ \A n \in DOMAIN d.adj : Len(d.adj[n]) = Len(e.adj[n])

\* C6: no node is in its own neighbor collection, and a self-loop edge is
\* discarded: what build_graph has built after any number of edges is what it
\* builds from those edges without the self-loops, so the returned dict has the
\* keys and degrees of the one built without them.
C6_SelfLoopsDiscarded ==
    /\ pc = "build" =>
          /\ \A n \in DOMAIN acc.adj : n \notin Range(acc.adj[n])
          /\ acc = build_loop(EmptyDict, NoSelfLoops(SubSeq(validated_edges, 1, k - 1)))
    /\ JustReturned =>
          /\ \A n \in DOMAIN graph.adj : n \notin Range(graph.adj[n])
          /\ SameDegrees(graph, build_loop(EmptyDict, NoSelfLoops(validated_edges)))

\* a self-loop was given on a node that is a key of the returned dict
C6_Witness ==
    /\ JustReturned
    /\ \E i \in 1..Len(validated_edges) :
          /\ validated_edges[i][1] = validated_edges[i][2]
          /\ validated_edges[i][1] \in DOMAIN graph.adj

SamePair(e, f) == {e[1], e[2]} = {f[1], f[2]}

\* the edge list without the later repetitions of a pair, in either orientation
RECURSIVE Dedup(_)
Dedup(es) ==
    IF es = <<>> THEN <<>>
    ELSE LET front == SubSeq(es, 1, Len(es) - 1)
             last == es[Len(es)]
         IN  IF \E j \in 1..Len(front) : SamePair(front[j], last)
             THEN Dedup(front)
             ELSE Append(Dedup(front), last)

\* C7: a pair given several times, in either orientation, is in each neighbor
\* list once, and every node has the degree it has in the graph built from the
\* edge list without the repetitions.
C7_ParallelEdgesCollapse ==
    JustReturned =>
        /\ \A n \in DOMAIN graph.adj :
              \A i, j \in 1..Len(graph.adj[n]) :
                  i # j => graph.adj[n][i] # graph.adj[n][j]
        /\ SameDegrees(graph, build_loop(EmptyDict, Dedup(validated_edges)))

\* a pair of distinct nodes was given twice
C7_Witness ==
    /\ JustReturned
    /\ \E i, j \in 1..Len(validated_edges) :
          /\ i < j
          /\ SamePair(validated_edges[i], validated_edges[j])
          /\ validated_edges[i][1] # validated_edges[i][2]

\* C8: with fewer than 2 nodes no graph is returned and neither the Eulerian
\* nor the Hamiltonian classification is computed.
C8_TooFewNodesRefused ==
    Len(nodes) < 2 =>
        /\ ~GraphReturned
        /\ eulerian_status = NoneStatus
        /\ hamiltonian_status = NoneStatus

\* the edges both of whose endpoints are entries of ns
KnownEdges(ns, es) == SelectSeq(es, LAMBDA e : e[1] \in Range(ns) /\ e[2] \in Range(ns))

\* C9: a label that is no entry of `nodes` is neither a key nor a neighbor in
\* the returned dict, which is the one built from the edges between known labels.
C9_UnknownLabelDropped ==
    GraphReturned =>
        /\ \A x \in Labels \ Range(validated_nodes) :
              /\ x \notin DOMAIN graph.adj
              /\ \A n \in DOMAIN graph.adj : x \notin Range(graph.adj[n])
        /\ SameDegrees(graph,
                       build_loop(EmptyDict, KnownEdges(validated_nodes, validated_edges)))

----------------------------------------------------------------------------
(* Claims about alternative_detection_methods, checked under SpecDetect *)

\* the call numbered i returned nodes and edges that are both non-empty
CallSucceeded(i) == calls[i].nodes # <<>> /\ calls[i].edges # <<>>

\* C10: the methods are invoked in the order contours, Hough, feature matching;
\* a method that returns no nodes or no edges is followed by the next one and
\* is never what is returned; the first method that returns both is the last
\* one invoked and its output is what is returned; when all three have failed
\* two empty lists are returned.
C10_OrderedFallback ==
    /\ Len(calls) <= 3
    /\ \A i \in 1..Len(calls) :
          calls[i].method =
              <<"detect_with_contours", "detect_with_hough",
                "detect_with_feature_matching">>[i]
    /\ \A i \in 1..(Len(calls) - 1) : ~CallSucceeded(i)
    /\ (calls # <<>> /\ CallSucceeded(Len(calls))) =>
          /\ pc # "alternative"
          /\ det = <<calls[Len(calls)].nodes, calls[Len(calls)].edges>>
    /\ (pc = "alternative" /\ ~(calls # <<>> /\ CallSucceeded(Len(calls)))) =>
          m = Len(calls) + 1
    /\ (pc \in {"alt_returned", "analyze", "offer_alternatives"} /\ calls # <<>>
            /\ ~CallSucceeded(Len(calls))) =>
          /\ Len(calls) = 3
          /\ det = <<<<>>, <<>>>>

\* the contour method failed and the output of the Hough method was returned
C10_Witness ==
    /\ pc = "alt_returned"
    /\ Len(calls) = 2
    /\ CallSucceeded(2)
    /\ det = <<calls[2].nodes, calls[2].edges>>

----------------------------------------------------------------------------
(* Claims about analyze_graph, checked under SpecAnalyzeGraph *)

\* i is an index of the node list ns at the least distance from pt, and no smaller
\* index is at that distance
FirstNearest(ns, pt, i) ==
    /\ i \in 0..(Len(ns) - 1)
    /\ \A j \in 0..(Len(ns) - 1) : norm2(ns[i + 1], pt) <= norm2(ns[j + 1], pt)
    /\ \A j \in 0..(i - 1) : norm2(ns[j + 1], pt) > norm2(ns[i + 1], pt)

\* C11: every edge endpoint is resolved to an index of a node at the least
\* Euclidean distance from it, however far that is, and among several nodes at
\* that distance to the one with the smallest index.
C11_NearestFirstIndex ==
    \A j \in 1..Len(resolved) :
        /\ FirstNearest(nodes, edges[j][1], resolved[j][1])
        /\ FirstNearest(nodes, edges[j][2], resolved[j][2])

\* an endpoint that lies on no node and is equally far from two different
\* nodes was resolved to the one of smaller index
C11_Witness ==
    \E j \in 1..Len(resolved) : \E i \in 0..(Len(nodes) - 1) :
        /\ i > resolved[j][1]
        /\ norm2(nodes[i + 1], edges[j][1]) = norm2(nodes[resolved[j][1] + 1], edges[j][1])
        /\ norm2(nodes[i + 1], edges[j][1]) > 0
        /\ nodes[i + 1] # nodes[resolved[j][1] + 1]

\* the degrees analyze_graph would list if each node counted its distinct
\* neighbors
DistinctDegrees == [i \in 1..Len(nodes) |-> Cardinality(Range(adj[i - 1]))]

\* C13: the degree of each node that the Eulerian verdict of analyze_graph
\* rests on is the number of its distinct neighbors, so observations that
\* resolve to the same pair of nodes count once and the number of odd degrees
\* is what it is with the pair observed once.
C13_DegreeCountsDistinctNeighbors ==
    pc = "ag_done" =>
        /\ degrees = DistinctDegrees
        /\ odd_degree(degrees) = odd_degree(DistinctDegrees)

====
